---- MODULE Spec2Model ----
(***************************************************************************)
(* Model of the following-updates pipeline of BILIBILI-Helper (src/app.py), *)
(* of its account routes and their session registry, and of the retry      *)
(* loop of its debug script (src/bili_debug.py).                           *)
(*                                                                         *)
(* The upstream HTTP API is the environment.  A listing (the followed      *)
(* creators of an account, the uploads of a creator) is a sequence the     *)
(* upstream serves in pages; a fault makes the fetch of one page fail.     *)
(* Of a following the model keeps the mid and the special flag, of an      *)
(* upload the bvid and the time of creation: names, titles and links are   *)
(* copied from the upstream to the result and decide nothing.              *)
(***************************************************************************)
EXTENDS Integers, Sequences, FiniteSets, TLC

(***************************************************************************)
(* Bounds of the model.                                                    *)
(***************************************************************************)
\* Timestamps of uploads are MinTs..MaxTs; the range crosses a power of ten
\* so that the decimal text of a timestamp changes length inside it.
MinTs == 8
MaxTs == 10
\* Items the upstream puts on one page of uploads and on one page of
\* followings (the code asks for ps=30 and ps=50 and never reads the page
\* size back).
PageSize == 2
FollowPageSize == 1
\* Creators an account may follow, and the longest upload listing of one
\* creator seen by fetch_following_updates.
NumCreators == 2
MaxUploads == 2
\* Largest result limit.
MaxLimit == 1
\* A call of fetch_followings_list or of fetch_creator_updates on its own:
\* the largest max_pages argument and the longest listing.
ListMaxPages == 4
MaxFollowed == 3
CreatorMaxPages == 2
MaxListing == 4
\* Target ids given to the debug script.
NumMids == 3
\* Browser sessions, session ids secrets.token_urlsafe may draw, and the
\* longest text of the sessdata form field.
NumBrowsers == 2
NumTokens == 3
MaxForm == 1

(***************************************************************************)
(* Python values.                                                          *)
(***************************************************************************)
\* An optional value: None, or a present value.
None == <<>>
Some(x) == <<x>>

\* str(n) for an integer n, as the sequence of its characters: a digit is
\* its value 0..9, the minus sign is MinusChar.
MinusChar == 10

RECURSIVE Digits(_)
Digits(n) == IF n < 10 THEN <<n>> ELSE Append(Digits(n \div 10), n % 10)

str(n) == IF n < 0 THEN <<MinusChar>> \o Digits(0 - n) ELSE Digits(n)

\* int(s) for the text of a decimal integer.
RECURSIVE DigitsValue(_)
DigitsValue(s) ==
    IF s = <<>> THEN 0
    ELSE 10 * DigitsValue(SubSeq(s, 1, Len(s) - 1)) + s[Len(s)]

int(s) ==
    IF s # <<>> /\ s[1] = MinusChar
    THEN 0 - DigitsValue(Tail(s))
    ELSE DigitsValue(s)

(***************************************************************************)
(* The upstream API.                                                       *)
(***************************************************************************)
\* What can go wrong with the fetch of one page.  "nulldata" is a payload
\* with code 0 whose data is null: not an error for the code.
FaultKinds == {"transport", "nonjson", "appcode", "nulldata"}
NoFault == [page |-> 0, kind |-> "transport"]

\* The page-th page of a listing served ps items a page.
PageOf(items, ps, page) ==
    SubSeq(items, (page - 1) * ps + 1,
           IF page * ps < Len(items) THEN page * ps ELSE Len(items))

\* The HTTP response to the request of one page of a listing.
Response(items, ps, fault, page) ==
    IF fault.page = page
    THEN CASE fault.kind = "transport" -> [kind |-> "transport", code |-> 0, data |-> None]
           [] fault.kind = "nonjson"   -> [kind |-> "nonjson", code |-> 0, data |-> None]
           [] fault.kind = "appcode"   -> [kind |-> "json", code |-> 0 - 352, data |-> None]
           [] OTHER                    -> [kind |-> "json", code |-> 0, data |-> None]
    ELSE [kind |-> "json", code |-> 0, data |-> Some(PageOf(items, ps, page))]

\* fetch_bili_json that returns the data of a payload whatever its code.
fetch_bili_json_IgnoreCode(resp) ==
    IF resp.kind # "json" THEN [raised |-> TRUE, data |-> None]
    ELSE [raised |-> FALSE, data |-> resp.data]

\* fetch_bili_json: urlopen raises on a transport error, json.loads on a
\* body that is not JSON, and a payload whose code is not 0 raises
\* RuntimeError; otherwise the payload's data is returned.
fetch_bili_json(resp) ==
    IF resp.kind # "json" THEN [raised |-> TRUE, data |-> None]
    ELSE IF resp.code # 0 THEN [raised |-> TRUE, data |-> None]
    ELSE [raised |-> FALSE, data |-> resp.data]

\* `data.get("list") or []`: a missing or null list reads as the empty list.
ListOf(data) == IF data = None THEN <<>> ELSE data[1]

(***************************************************************************)
(* fetch_creator_updates                                                   *)
(***************************************************************************)
\* The uploads of a creator as the upstream lists them: the k-th upload has
\* bvid k and the raw "created" field uploads[k] (None: field missing).
VList(uploads) == [k \in 1..Len(uploads) |-> [bvid |-> k, created |-> uploads[k]]]

\* int(item.get("created") or 0)
CreatedTs(item) == IF item.created = None THEN 0 ELSE item.created[1]

\* The record appended for one upload.
UpdateOf(item) == [created_ts |-> str(CreatedTs(item)), bvid |-> item.bvid]

\* CollectPage that takes an upload created at the cutoff for too old.
RECURSIVE CollectPage_Strict(_, _)
CollectPage_Strict(vlist, cutoff_ts) ==
    IF vlist = <<>> THEN <<>>
    ELSE IF CreatedTs(Head(vlist)) <= cutoff_ts THEN <<>>
    ELSE <<UpdateOf(Head(vlist))>> \o CollectPage_Strict(Tail(vlist), cutoff_ts)

\* CollectPage without the cutoff test.
CollectPage_NoCutoff(vlist, cutoff_ts) == [k \in 1..Len(vlist) |-> UpdateOf(vlist[k])]

\* CollectPage that skips an item older than the cutoff and goes on to the
\* items after it.
RECURSIVE CollectPage_Filter(_, _)
CollectPage_Filter(vlist, cutoff_ts) ==
    IF vlist = <<>> THEN <<>>
    ELSE IF CreatedTs(Head(vlist)) < cutoff_ts
    THEN CollectPage_Filter(Tail(vlist), cutoff_ts)
    ELSE <<UpdateOf(Head(vlist))>> \o CollectPage_Filter(Tail(vlist), cutoff_ts)

\* The inner loop over one page: append items until the first one older
\* than the cutoff.
RECURSIVE CollectPage(_, _)
CollectPage(vlist, cutoff_ts) ==
    IF vlist = <<>> THEN <<>>
    ELSE IF CreatedTs(Head(vlist)) < cutoff_ts THEN <<>>
    ELSE <<UpdateOf(Head(vlist))>> \o CollectPage(Tail(vlist), cutoff_ts)

\* The frame of a call before its first iteration.
CreatorCallInit(max_pages) ==
    [page |-> 1, updates |-> <<>>, requested |-> <<>>,
     status |-> IF max_pages >= 1 THEN "running" ELSE "returned"]

\* CreatorPageIter that goes on to the next page whatever the last item of
\* the page is.
CreatorPageIter_NoEarlyStop(st, resp, cutoff_ts, max_pages) ==
    LET got == fetch_bili_json(resp)
        vlist == ListOf(got.data)
        req == Append(st.requested, st.page)
    IN  IF got.raised
        THEN [st EXCEPT !.requested = req, !.status = "raised"]
        ELSE IF vlist = <<>>
        THEN [st EXCEPT !.requested = req, !.status = "returned"]
        ELSE LET ups == st.updates \o CollectPage(vlist, cutoff_ts)
             IN  IF st.page >= max_pages
                 THEN [st EXCEPT !.requested = req, !.updates = ups,
                                 !.status = "returned"]
                 ELSE [st EXCEPT !.requested = req, !.updates = ups,
                                 !.page = st.page + 1]

\* One iteration of `for page in range(1, max_pages + 1)`.
CreatorPageIter(st, resp, cutoff_ts, max_pages) ==
    LET got == fetch_bili_json(resp)
        vlist == ListOf(got.data)
        req == Append(st.requested, st.page)
    IN  IF got.raised
        THEN [st EXCEPT !.requested = req, !.status = "raised"]
        ELSE IF vlist = <<>>
        THEN [st EXCEPT !.requested = req, !.status = "returned"]
        ELSE LET ups == st.updates \o CollectPage(vlist, cutoff_ts)
             IN  IF CreatedTs(vlist[Len(vlist)]) < cutoff_ts \/ st.page >= max_pages
                 THEN [st EXCEPT !.requested = req, !.updates = ups,
                                 !.status = "returned"]
                 ELSE [st EXCEPT !.requested = req, !.updates = ups,
                                 !.page = st.page + 1]

\* The whole call against one creator's world.
RECURSIVE CreatorCallRun(_, _, _, _)
CreatorCallRun(st, world, cutoff_ts, max_pages) ==
    IF st.status # "running" THEN st
    ELSE CreatorCallRun(
             CreatorPageIter(st, Response(VList(world.uploads), PageSize, world.fault, st.page),
                             cutoff_ts, max_pages),
             world, cutoff_ts, max_pages)

fetch_creator_updates(world, cutoff_ts, max_pages) ==
    CreatorCallRun(CreatorCallInit(max_pages), world, cutoff_ts, max_pages)

(***************************************************************************)
(* fetch_followings_list                                                   *)
(***************************************************************************)
\* The followings of an account as the upstream lists them: the k-th has
\* mid k and the raw "special" field specials[k] (None: field missing).
Followed(specials) == [k \in 1..Len(specials) |-> [mid |-> k, special |-> specials[k]]]

\* One entry of the result: the mid, and "1" exactly for an upstream item
\* whose special field equals 1 (the flag is the one-character text).
FollowingOf(item) ==
    [mid |-> item.mid, special |-> IF item.special = Some(1) THEN str(1) ELSE str(0)]

FollowingsOf(page) == [k \in 1..Len(page) |-> FollowingOf(page[k])]

ListCallInit(max_pages) ==
    [page |-> 1, results |-> <<>>, requested |-> <<>>,
     status |-> IF max_pages >= 1 THEN "running" ELSE "returned"]

\* ListPageIter that goes on to the next page after an empty one.
ListPageIter_NoBreak(st, resp, max_pages) ==
    LET got == fetch_bili_json(resp)
        req == Append(st.requested, st.page)
    IN  IF got.raised
        THEN [st EXCEPT !.requested = req, !.status = "raised"]
        ELSE LET res == st.results \o FollowingsOf(ListOf(got.data))
             IN  IF st.page >= max_pages
                 THEN [st EXCEPT !.requested = req, !.results = res,
                                 !.status = "returned"]
                 ELSE [st EXCEPT !.requested = req, !.results = res,
                                 !.page = st.page + 1]

\* One iteration of `for page in range(1, max_pages + 1)`.
ListPageIter(st, resp, max_pages) ==
    LET got == fetch_bili_json(resp)
        followings == ListOf(got.data)
        req == Append(st.requested, st.page)
    IN  IF got.raised
        THEN [st EXCEPT !.requested = req, !.status = "raised"]
        ELSE IF followings = <<>>
        THEN [st EXCEPT !.requested = req, !.status = "returned"]
        ELSE LET res == st.results \o FollowingsOf(followings)
             IN  IF st.page >= max_pages
                 THEN [st EXCEPT !.requested = req, !.results = res,
                                 !.status = "returned"]
                 ELSE [st EXCEPT !.requested = req, !.results = res,
                                 !.page = st.page + 1]

RECURSIVE ListCallRun(_, _, _)
ListCallRun(st, world, max_pages) ==
    IF st.status # "running" THEN st
    ELSE ListCallRun(
             ListPageIter(st, Response(Followed(world.specials), FollowPageSize, world.fault,
                                   st.page), max_pages),
             world, max_pages)

fetch_followings_list(world, max_pages) ==
    ListCallRun(ListCallInit(max_pages), world, max_pages)

(***************************************************************************)
(* fetch_following_updates                                                 *)
(***************************************************************************)
\* max_pages as fetch_following_updates passes it to both fetches.
UpdatesMaxPages == 2

StatusOf(item, status, count) ==
    [creator_mid |-> item.mid, status |-> status, count |-> count]

\* {**update, "creator_mid": ..., "special": ...}
TagUpdate(update, item) ==
    [created_ts |-> update.created_ts, bvid |-> update.bvid,
     creator_mid |-> item.mid, special |-> item.special]

TagUpdates(ups, item) == [k \in 1..Len(ups) |-> TagUpdate(ups[k], item)]

\* CreatorIter whose except branch keeps what the failed call had collected.
CreatorIter_KeepPartial(acc, item, call) ==
    IF call.status = "raised"
    THEN [updates  |-> acc.updates \o TagUpdates(call.updates, item),
          statuses |-> Append(acc.statuses, StatusOf(item, "api_failed", 0))]
    ELSE IF call.updates = <<>>
    THEN [acc EXCEPT !.statuses = Append(@, StatusOf(item, "no_updates", 0))]
    ELSE [updates  |-> acc.updates \o TagUpdates(call.updates, item),
          statuses |-> Append(acc.statuses,
                              StatusOf(item, "updated", Len(call.updates)))]

\* CreatorIter whose except branch lacks the `continue`.
CreatorIter_NoContinue(acc, item, call) ==
    LET failed == IF call.status = "raised"
                  THEN <<StatusOf(item, "api_failed", 0)>> ELSE <<>>
    IN  IF call.status = "raised" \/ call.updates = <<>>
        THEN [acc EXCEPT !.statuses =
                  @ \o failed \o <<StatusOf(item, "no_updates", 0)>>]
        ELSE [updates  |-> acc.updates \o TagUpdates(call.updates, item),
              statuses |-> Append(acc.statuses,
                                  StatusOf(item, "updated", Len(call.updates)))]

\* CreatorIter without the branch for an empty result.
CreatorIter_NoEmptyCase(acc, item, call) ==
    IF call.status = "raised"
    THEN [acc EXCEPT !.statuses = Append(@, StatusOf(item, "api_failed", 0))]
    ELSE [updates  |-> acc.updates \o TagUpdates(call.updates, item),
          statuses |-> Append(acc.statuses,
                              StatusOf(item, "updated", Len(call.updates)))]

\* One iteration of `for item in followings`, given the frame in which the
\* call of fetch_creator_updates ended; acc holds updates and statuses.
CreatorIter(acc, item, call) ==
    IF call.status = "raised"
    THEN [acc EXCEPT !.statuses = Append(@, StatusOf(item, "api_failed", 0))]
    ELSE IF call.updates = <<>>
    THEN [acc EXCEPT !.statuses = Append(@, StatusOf(item, "no_updates", 0))]
    ELSE [updates  |-> acc.updates \o TagUpdates(call.updates, item),
          statuses |-> Append(acc.statuses,
                              StatusOf(item, "updated", Len(call.updates)))]

\* A key that orders the texts of the timestamps as strings are ordered,
\* character by character, instead of their values.
SortKey_Text(x) ==
    LET s == x.created_ts
    IN  (MinusChar + 1) * s[1] + (IF Len(s) > 1 THEN s[2] + 1 ELSE 0)

\* key=lambda x: int(x.get("created_ts", "0"))
SortKey(x) == int(x.created_ts)

\* list.sort(key=..., reverse=True) is stable: of two items with equal keys
\* the one that was first stays first.
RECURSIVE InsertDesc(_, _)
InsertDesc(sorted, x) ==
    IF sorted = <<>> THEN <<x>>
    ELSE IF SortKey(Head(sorted)) >= SortKey(x)
    THEN <<Head(sorted)>> \o InsertDesc(Tail(sorted), x)
    ELSE <<x>> \o sorted

RECURSIVE SortDesc(_)
SortDesc(seq) ==
    IF seq = <<>> THEN <<>>
    ELSE InsertDesc(SortDesc(SubSeq(seq, 1, Len(seq) - 1)), seq[Len(seq)])

\* updates[: max(limit, 0)]
Truncate(seq, limit) ==
    LET n == IF limit > 0 THEN limit ELSE 0
    IN  SubSeq(seq, 1, IF n < Len(seq) THEN n ELSE Len(seq))

\* FeedOf with the cap applied before the sort.
FeedOf_CapFirst(all, limit) ==
    IF limit = None THEN SortDesc(all) ELSE SortDesc(Truncate(all, limit[1]))

\* The sort and the return of fetch_following_updates.
FeedOf(all, limit) ==
    IF limit = None THEN SortDesc(all) ELSE Truncate(SortDesc(all), limit[1])

(***************************************************************************)
(* fetch_json of the debug script                                          *)
(***************************************************************************)
\* retries, and the first delay.
Retries == 3
FirstDelay == 1
TooManyRequests == 429

\* What urlopen does in one attempt: a response or an HTTPError, both with
\* a status, or an error that is no HTTPError.
Outcomes == [kind : {"http"}, status : {200, 500, TooManyRequests}]
            \cup {[kind |-> "urlerror", status |-> 0]}

DebugCallInit ==
    [attempt |-> 0, delay |-> FirstDelay, tried |-> <<>>, slept |-> <<>>,
     status |-> IF Retries >= 1 THEN "running" ELSE "raised", value |-> 0]

\* DebugAttempt that retries after every status but 200.
DebugAttempt_RetryAll(st, outcome) ==
    IF outcome.kind # "http"
    THEN [st EXCEPT !.status = "raised"]
    ELSE IF outcome.status # 200 /\ st.attempt < Retries - 1
    THEN [st EXCEPT !.tried = Append(@, outcome.status),
                    !.slept = Append(@, st.delay),
                    !.delay = st.delay * 2,
                    !.attempt = st.attempt + 1]
    ELSE [st EXCEPT !.tried = Append(@, outcome.status),
                    !.status = "returned", !.value = outcome.status]

\* One iteration of `for attempt in range(retries)`.
DebugAttempt(st, outcome) ==
    IF outcome.kind # "http"
    THEN [st EXCEPT !.status = "raised"]
    ELSE IF outcome.status = TooManyRequests /\ st.attempt < Retries - 1
    THEN [st EXCEPT !.tried = Append(@, outcome.status),
                    !.slept = Append(@, st.delay),
                    !.delay = st.delay * 2,
                    !.attempt = st.attempt + 1]
    ELSE [st EXCEPT !.tried = Append(@, outcome.status),
                    !.status = "returned", !.value = outcome.status]

(***************************************************************************)
(* State.                                                                  *)
(***************************************************************************)
(***************************************************************************)
(* The session registry.                                                   *)
(***************************************************************************)
\* Text is a sequence of characters: a blank and a letter.
Space == 32
Letter == 97

RECURSIVE lstrip(_)
lstrip(s) == IF s # <<>> /\ Head(s) = Space THEN lstrip(Tail(s)) ELSE s
RECURSIVE rstrip(_)
rstrip(s) ==
    IF s # <<>> /\ s[Len(s)] = Space THEN rstrip(SubSeq(s, 1, Len(s) - 1)) ELSE s
\* str.strip()
strip(s) == rstrip(lstrip(s))

\* A dict without key k, and a dict with key k set to v.
Pop(d, k) == [x \in DOMAIN d \ {k} |-> d[x]]
Put(d, k, v) == [x \in DOMAIN d \cup {k} |-> IF x = k THEN v ELSE d[x]]

\* The Flask session of a browser that has sent nothing yet. Of its keys
\* only bili_session_id is kept: login_error is a message for the next page
\* and no route reads it to decide anything.
NoSession == [bili_session_id |-> None]

\* fetch_user_profile: the nav data read as a profile, unless the fetch raises.
fetch_user_profile(resp) ==
    LET got == fetch_bili_json(resp)
    IN  [raised |-> got.raised,
         mid |-> IF got.data = None THEN <<>> ELSE str(got.data[1][1])]

\* create_bili_session: the store with the new entry under session_id.
create_bili_session(store, session_id, profile, sessdata) ==
    Put(store, session_id, [mid |-> profile.mid, sessdata |-> sessdata])

\* clear_bili_session that forgets the id and leaves the store as it is.
clear_bili_session_KeepEntry(store, sess) ==
    [store |-> store, sess |-> [sess EXCEPT !.bili_session_id = None]]

\* clear_bili_session: pop the id from the Flask session and, if there was
\* one, pop its entry from the store.
clear_bili_session(store, sess) ==
    [store |-> IF sess.bili_session_id # None
               THEN Pop(store, sess.bili_session_id[1]) ELSE store,
     sess |-> [sess EXCEPT !.bili_session_id = None]]

VARIABLES
    pc,          \* where the call of fetch_following_updates stands
    cutoff_ts,   \* its cutoff
    limit,       \* its limit argument: None or an integer
    list_call,   \* the frame in which its fetch_followings_list call ended
    followings,  \* the followed creators
    acc,         \* updates and statuses, the two accumulating lists
    idx,         \* the followings processed so far
    cur_world,   \* the upstream listing of the creator processed last, when
                 \* the run is observed
    cur_call,    \* the frame in which its fetch_creator_updates call ended
    alt,         \* acc of the same run over the creators whose fetch did not raise
    result,      \* what the call returned: None, or the feed and the statuses
    \* a call of fetch_followings_list on its own
    fl_world,    \* the upstream listing of the followings
    fl_max_pages,
    fl,          \* the frame of the call
    \* a call of fetch_creator_updates on its own
    cu_world,    \* the upstream listing of the creator's uploads
    cu_cutoff,
    cu_max_pages,
    cu,          \* the frame of the call
    \* the debug script
    dbg_pc,      \* where main stands
    dbg_done,    \* the statuses fetch_json returned for the mids done
    dbg,         \* the frame of the call of fetch_json
    \* the web application's accounts
    BILI_SESSION_STORE,  \* session id -> the account stored under it
    session,     \* the Flask session of each browser
    request      \* the request handled last, with the id its cookie carried

mainVars == <<pc, cutoff_ts, limit, list_call, followings, acc, idx, cur_world,
              cur_call, alt, result>>
listVars == <<fl_world, fl_max_pages, fl>>
creatorVars == <<cu_world, cu_cutoff, cu_max_pages, cu>>
debugVars == <<dbg_pc, dbg_done, dbg>>
sessionVars == <<BILI_SESSION_STORE, session, request>>
vars == <<mainVars, listVars, creatorVars, debugVars, sessionVars>>

(***************************************************************************)
(* The inputs.                                                             *)
(***************************************************************************)
SeqsUpTo(S, n) == UNION {[1..k -> S] : k \in 0..n}

Faults(pages, kinds) == {NoFault} \cup [page : 1..pages, kind : kinds]

\* The raw "created" field of an upload: missing, or a timestamp.
Created == {Some(t) : t \in MinTs..MaxTs}
RawCreated == {None} \cup Created
\* The listings served to fetch_following_updates: a fetch fails by a
\* transport error or by an application error.
CreatorWorlds == [uploads : SeqsUpTo(Created, MaxUploads),
                  fault : Faults(UpdatesMaxPages, {"transport", "appcode"})]

\* The followings served to fetch_following_updates: up to NumCreators of
\* them, every other one flagged special.
ListWorlds == [specials : {[k \in 1..n |-> Some(k % 2)] : n \in 0..NumCreators},
               fault : Faults(UpdatesMaxPages, FaultKinds)]

Cutoffs == (MinTs + 1)..MaxTs
Limits == {None} \cup {Some(l) : l \in 0..MaxLimit}

NoAcc == [updates |-> <<>>, statuses |-> <<>>]
NoWorld == [uploads |-> <<>>, fault |-> NoFault]

\* The raw "special" field of a following: missing, or a number.
RawSpecial == {None, Some(0), Some(1), Some(2)}
FullListWorlds == [specials : SeqsUpTo(RawSpecial, MaxFollowed),
                   fault : Faults(ListMaxPages, FaultKinds)]
FullCreatorWorlds == [uploads : SeqsUpTo(RawCreated, MaxListing),
                      fault : Faults(CreatorMaxPages, FaultKinds)]

\* The parts of the program that are not running.
Idle(st) == [st EXCEPT !.status = "idle"]
MainIdle ==
    /\ pc = "idle"
    /\ cutoff_ts = 0
    /\ limit = None
    /\ list_call = Idle(ListCallInit(UpdatesMaxPages))
    /\ followings = <<>>
    /\ acc = NoAcc
    /\ idx = 0
    /\ cur_world = NoWorld
    /\ cur_call = Idle(CreatorCallInit(UpdatesMaxPages))
    /\ alt = NoAcc
    /\ result = None
ListIdle ==
    /\ fl_world = [specials |-> <<>>, fault |-> NoFault]
    /\ fl_max_pages = 0
    /\ fl = Idle(ListCallInit(0))
CreatorIdle ==
    /\ cu_world = NoWorld
    /\ cu_cutoff = 0
    /\ cu_max_pages = 0
    /\ cu = Idle(CreatorCallInit(0))
DebugIdle ==
    /\ dbg_pc = "idle"
    /\ dbg_done = <<>>
    /\ dbg = Idle(DebugCallInit)

\* The browsers, the session ids, and what the sessdata field may hold.
Browsers == 1..NumBrowsers
Tokens == 1..NumTokens
FormValues == SeqsUpTo({Space, Letter}, MaxForm)
\* The responses of the nav endpoint to a credential: a transport error, an
\* application error, or the account the credential belongs to.
NavResponses(sessdata) ==
    {Response(<<Len(sessdata)>>, 1, fault, 1) :
        fault \in Faults(1, {"transport", "appcode"})}
\* What fetch_user_profile may come to for a credential.
Profiles(sessdata) == {fetch_user_profile(resp) : resp \in NavResponses(sessdata)}
NoRequest == [route |-> "none", browser |-> 0, cookie |-> None, outcome |-> "none"]
\* The web application before its first request.
SessionIdle ==
    /\ BILI_SESSION_STORE = <<>>
    /\ session = [b \in Browsers |-> NoSession]
    /\ request = NoRequest

(***************************************************************************)
(* fetch_following_updates, step by step.                                  *)
(***************************************************************************)
Init ==
    /\ pc = "start"
    /\ cutoff_ts = 0
    /\ limit = None
    /\ list_call = ListCallInit(UpdatesMaxPages)
    /\ followings = <<>>
    /\ acc = NoAcc
    /\ idx = 0
    /\ cur_world = NoWorld
    /\ cur_call = CreatorCallInit(UpdatesMaxPages)
    /\ alt = NoAcc
    /\ result = None
    /\ ListIdle /\ CreatorIdle /\ DebugIdle /\ SessionIdle

\* followings = fetch_followings_list(mid, sessdata, max_pages=2): an
\* exception leaves the function.  Then the cutoff is taken from the clock.
FetchFollowings ==
    /\ pc = "start"
    /\ \E world \in ListWorlds :
         LET call == fetch_followings_list(world, UpdatesMaxPages)
         IN  /\ list_call' = call
             /\ IF call.status = "raised"
                THEN /\ pc' = "raised"
                     /\ UNCHANGED <<followings, cutoff_ts>>
                ELSE /\ pc' = "creators"
                     /\ followings' = call.results
                     /\ cutoff_ts' \in Cutoffs
    /\ UNCHANGED <<limit, acc, idx, cur_world, cur_call, alt, result>>
    /\ UNCHANGED <<listVars, creatorVars, debugVars, sessionVars>>

\* The ways a call fetch_creator_updates(item["mid"], cutoff_ts, sessdata,
\* max_pages=2) can end, each with the listing the upstream served it.
CreatorCalls(cutoff, observed) ==
    {[world |-> IF observed THEN world ELSE NoWorld,
      call  |-> fetch_creator_updates(world, cutoff, UpdatesMaxPages)] :
        world \in CreatorWorlds}

\* One iteration of the loop over the followings.  An observed run keeps
\* the listing the upstream served for the creator.
ProcessCreator(observed) ==
    /\ pc = "creators"
    /\ idx < Len(followings)
    /\ \E served \in CreatorCalls(cutoff_ts, observed) :
         LET item == followings[idx + 1]
             call == served.call
         IN  /\ cur_world' = served.world
             /\ cur_call' = call
             /\ acc' = CreatorIter(acc, item, call)
             /\ alt' = IF call.status = "raised" THEN alt
                       ELSE CreatorIter(alt, item, call)
    /\ idx' = idx + 1
    /\ UNCHANGED <<pc, cutoff_ts, limit, list_call, followings, result>>
    /\ UNCHANGED <<listVars, creatorVars, debugVars, sessionVars>>

\* The sort, the cap and the return.  The limit argument is read here and
\* nowhere else.
Return ==
    /\ pc = "creators"
    /\ idx = Len(followings)
    /\ limit' \in Limits
    /\ result' = Some([feed |-> FeedOf(acc.updates, limit'), statuses |-> acc.statuses])
    /\ pc' = "returned"
    /\ UNCHANGED <<cutoff_ts, list_call, followings, acc, idx, cur_world,
                   cur_call, alt>>
    /\ UNCHANGED <<listVars, creatorVars, debugVars, sessionVars>>

Next == FetchFollowings \/ ProcessCreator(FALSE) \/ Return

Spec == Init /\ [][Next]_vars

NextObserved == FetchFollowings \/ ProcessCreator(TRUE) \/ Return

SpecObserved == Init /\ [][NextObserved]_vars

(***************************************************************************)
(* fetch_followings_list, page by page.                                    *)
(***************************************************************************)
InitList ==
    /\ fl_world \in FullListWorlds
    /\ fl_max_pages \in 1..ListMaxPages
    /\ fl = ListCallInit(fl_max_pages)
    /\ MainIdle /\ CreatorIdle /\ DebugIdle /\ SessionIdle

ListPage ==
    /\ fl.status = "running"
    /\ fl' = ListPageIter(fl, Response(Followed(fl_world.specials), FollowPageSize,
                                       fl_world.fault, fl.page), fl_max_pages)
    /\ UNCHANGED <<fl_world, fl_max_pages, mainVars, creatorVars, debugVars, sessionVars>>

NextList == ListPage

SpecList == InitList /\ [][NextList]_vars

(***************************************************************************)
(* fetch_creator_updates, page by page.                                    *)
(***************************************************************************)
InitCreator ==
    /\ cu_world \in FullCreatorWorlds
    /\ cu_cutoff \in Cutoffs
    /\ cu_max_pages \in 1..CreatorMaxPages
    /\ cu = CreatorCallInit(cu_max_pages)
    /\ MainIdle /\ ListIdle /\ DebugIdle /\ SessionIdle

CreatorPage ==
    /\ cu.status = "running"
    /\ cu' = CreatorPageIter(cu, Response(VList(cu_world.uploads), PageSize,
                                          cu_world.fault, cu.page),
                             cu_cutoff, cu_max_pages)
    /\ UNCHANGED <<cu_world, cu_cutoff, cu_max_pages, mainVars, listVars, debugVars, sessionVars>>

NextCreator == CreatorPage

SpecCreator == InitCreator /\ [][NextCreator]_vars

\* The three fetches, each entered on its own.
SpecFetch ==
    (Init \/ InitList \/ InitCreator) /\ [][Next \/ NextList \/ NextCreator]_vars

(***************************************************************************)
(* The debug script: main calls fetch_json for one mid after the other.    *)
(***************************************************************************)
InitDebug ==
    /\ dbg_pc = "main"
    /\ dbg_done = <<>>
    /\ dbg = Idle(DebugCallInit)
    /\ MainIdle /\ ListIdle /\ CreatorIdle /\ SessionIdle

\* status, body = fetch_json(url, sessdata)
DebugCall ==
    /\ dbg_pc = "main"
    /\ Len(dbg_done) < NumMids
    /\ dbg' = DebugCallInit
    /\ dbg_pc' = "fetch_json"
    /\ UNCHANGED <<dbg_done, mainVars, listVars, creatorVars, sessionVars>>

\* One attempt of fetch_json; an error that is no HTTPError ends the script.
DebugTry ==
    /\ dbg_pc = "fetch_json"
    /\ dbg.status = "running"
    /\ \E outcome \in Outcomes : dbg' = DebugAttempt(dbg, outcome)
    /\ UNCHANGED <<dbg_pc, dbg_done, mainVars, listVars, creatorVars, sessionVars>>

\* The rest of the loop body of main.
DebugReport ==
    /\ dbg_pc = "fetch_json"
    /\ dbg.status = "returned"
    /\ dbg_done' = Append(dbg_done, dbg.value)
    /\ dbg_pc' = "main"
    /\ UNCHANGED <<dbg, mainVars, listVars, creatorVars, sessionVars>>

NextDebug == DebugCall \/ DebugTry \/ DebugReport

SpecDebug == InitDebug /\ [][NextDebug]_vars /\ WF_vars(NextDebug)

(***************************************************************************)
(* The account routes: each request is handled in one piece.               *)
(***************************************************************************)
InitSession ==
    /\ SessionIdle
    /\ MainIdle /\ ListIdle /\ CreatorIdle /\ DebugIdle

Handled(route, b, outcome) ==
    request' = [route |-> route, browser |-> b,
                cookie |-> session[b].bili_session_id, outcome |-> outcome]

\* POST /account/login
account_login(b, form) ==
    LET sessdata == strip(form)
    IN  IF sessdata = <<>>
        THEN /\ Handled("login", b, "empty")
             /\ UNCHANGED <<BILI_SESSION_STORE, session>>
        ELSE \E profile \in Profiles(sessdata) :
                 IF profile.raised
                 THEN /\ Handled("login", b, "failed")
                      /\ UNCHANGED <<BILI_SESSION_STORE, session>>
                 ELSE \E session_id \in Tokens :
                      LET cleared == clear_bili_session(BILI_SESSION_STORE, session[b])
                      IN  /\ BILI_SESSION_STORE' =
                               create_bili_session(cleared.store, session_id,
                                                   profile, sessdata)
                          /\ session' =
                               [session EXCEPT
                                  ![b] = [cleared.sess EXCEPT
                                            !.bili_session_id = Some(session_id)]]
                          /\ Handled("login", b, "ok")

\* POST /account/logout
account_logout(b) ==
    LET cleared == clear_bili_session(BILI_SESSION_STORE, session[b])
    IN  /\ BILI_SESSION_STORE' = cleared.store
        /\ session' = [session EXCEPT ![b] = cleared.sess]
        /\ Handled("logout", b, "done")

Login ==
    /\ \E b \in Browsers, form \in FormValues : account_login(b, form)
    /\ UNCHANGED <<mainVars, listVars, creatorVars, debugVars>>
Logout ==
    /\ \E b \in Browsers : account_logout(b)
    /\ UNCHANGED <<mainVars, listVars, creatorVars, debugVars>>

NextSession == Login \/ Logout

SpecSession == InitSession /\ [][NextSession]_vars

(***************************************************************************)
(* Properties of fetch_following_updates.                                  *)
(***************************************************************************)
Range(s) == {s[k] : k \in 1..Len(s)}
Returned == result # None
Feed == result[1].feed
Statuses == result[1].statuses
\* The creator processed last, and the updates collected for a creator.
LastItem == followings[idx]
UpdatesBy(mid) == SelectSeq(acc.updates, LAMBDA u : u.creator_mid = mid)

\* C1: every item fetch_creator_updates returns, called on its own or by
\* fetch_following_updates, and every Video Update of the feed
\* fetch_following_updates returns, has created_ts >= the cutoff.
C1_CutoffRespected ==
    /\ cu.status = "returned" =>
         \A u \in Range(cu.updates) : int(u.created_ts) >= cu_cutoff
    /\ cur_call.status = "returned" =>
         \A u \in Range(cur_call.updates) : int(u.created_ts) >= cutoff_ts
    /\ Returned => \A u \in Range(Feed) : int(u.created_ts) >= cutoff_ts

\* A feed is returned, and the call for the creator processed last stopped
\* after its first page, on an upload older than the cutoff, having
\* collected an upload before it.
C1_Witness ==
    /\ Returned /\ Feed # <<>>
    /\ cur_call.status = "returned" /\ cur_call.updates # <<>>
    /\ cur_call.requested = <<1>>

\* C2: a creator whose fetch raises gets exactly the status api_failed with
\* count 0 and contributes no update, whatever its call had collected; the
\* run still returns (only a failure of the following-list fetch ends it
\* early); and the feed and the other creators' statuses are those of the
\* same run over the followings without the creators whose fetch raised.
C2_FailureIsolated ==
    /\ (idx > 0 /\ cur_call.status = "raised") =>
         /\ acc.statuses[idx] = StatusOf(LastItem, "api_failed", 0)
         /\ UpdatesBy(LastItem.mid) = <<>>
    /\ pc = "raised" => (list_call.status = "raised" /\ idx = 0)
    /\ Returned =>
         /\ Feed = FeedOf(alt.updates, limit)
         /\ SelectSeq(Statuses, LAMBDA s : s.status # "api_failed") = alt.statuses
         /\ \A u \in Range(Feed) : \A s \in Range(Statuses) :
              s.creator_mid = u.creator_mid => s.status = "updated"

\* The run returned a non-empty feed although the creator processed last
\* raised on its second page, after its first page had been collected.
C2_Witness ==
    /\ Returned /\ Feed # <<>>
    /\ cur_call.status = "raised" /\ cur_call.updates # <<>>
    /\ \E s \in Range(Statuses) : s.status = "updated"
    /\ \E s \in Range(Statuses) : s.status = "api_failed"

\* C4: the returned feed is in non-increasing order of created_ts, compared
\* as integers, with or without a limit.
C4_FeedSorted ==
    Returned =>
        \A i, j \in 1..Len(Feed) :
            i < j => int(Feed[i].created_ts) >= int(Feed[j].created_ts)

\* A returned feed whose updates were collected oldest first, the texts of
\* their timestamps differing in length.
C4_Witness ==
    /\ Returned /\ Len(Feed) >= 2
    /\ \E i, j \in 1..Len(acc.updates) :
         /\ i < j
         /\ int(acc.updates[i].created_ts) < int(acc.updates[j].created_ts)
         /\ Len(acc.updates[i].created_ts) < Len(acc.updates[j].created_ts)

\* C5: with a limit L smaller than the number of collected updates, exactly
\* L updates are returned, all of them collected updates, and none that was
\* left out is newer than one that was returned.
C5_LimitKeepsNewest ==
    (Returned /\ limit # None /\ limit[1] >= 0 /\ limit[1] < Len(acc.updates)) =>
        /\ Len(Feed) = limit[1]
        /\ Cardinality(Range(Feed)) = limit[1]
        /\ Range(Feed) \subseteq Range(acc.updates)
        /\ \A u \in Range(Feed) : \A v \in Range(acc.updates) \ Range(Feed) :
             int(u.created_ts) >= int(v.created_ts)

\* The limit cut a feed whose newest update came from the creator processed
\* last, behind an older update of a creator processed before.
C5_Witness ==
    /\ Returned /\ limit # None /\ limit[1] >= 1 /\ limit[1] < Len(acc.updates)
    /\ int(acc.updates[1].created_ts) < int(Feed[1].created_ts)
    /\ acc.updates[1].creator_mid # Feed[1].creator_mid

\* C6: the statuses hold one entry per processed creator, in processing
\* order, each updated, no_updates or api_failed; updated exactly when the
\* creator contributed an update, with count the number of its updates in
\* the untruncated feed; and the returned list covers all the followings.
C6_OneStatusPerCreator ==
    /\ Len(acc.statuses) = idx
    /\ \A i \in 1..idx :
         LET s == acc.statuses[i]
         IN  /\ s.creator_mid = followings[i].mid
             /\ s.status \in {"updated", "no_updates", "api_failed"}
             /\ s.count = Len(UpdatesBy(s.creator_mid))
             /\ s.status = "updated" <=> s.count >= 1
    /\ Returned => (Statuses = acc.statuses /\ Len(Statuses) = Len(followings))

\* A run over two creators returned: the fetch of the first raised, the
\* second contributed two updates.
C6_Witness ==
    /\ Returned /\ Len(Statuses) = 2
    /\ Statuses[1].status = "api_failed"
    /\ Statuses[2].status = "updated" /\ Statuses[2].count = 2

\* The listing of the creator processed last has no upload at or after the
\* cutoff.
NothingInWindow == \A k \in 1..Len(cur_world.uploads) :
                       CreatedTs(VList(cur_world.uploads)[k]) < cutoff_ts

\* C7: a creator whose fetch succeeds and who has no upload at or after the
\* cutoff gets the status no_updates with count 0 and adds no update.
C7_NoUpdates ==
    (idx > 0 /\ cur_call.status = "returned" /\ NothingInWindow) =>
        /\ acc.statuses[idx] = StatusOf(LastItem, "no_updates", 0)
        /\ UpdatesBy(LastItem.mid) = <<>>
        /\ Returned => \A u \in Range(Feed) : u.creator_mid # LastItem.mid

\* The creator processed last listed uploads, all older than the cutoff, and
\* the run returned a feed of another creator's updates.
C7_Witness ==
    /\ Returned /\ Feed # <<>>
    /\ idx > 0 /\ cur_call.status = "returned"
    /\ cur_world.uploads # <<>> /\ NothingInWindow

(***************************************************************************)
(* Properties of fetch_creator_updates.                                    *)
(***************************************************************************)
CuItems == VList(cu_world.uploads)
\* The listing is newest first.
CuNewestFirst ==
    \A i, j \in 1..Len(CuItems) : i < j => CreatedTs(CuItems[i]) >= CreatedTs(CuItems[j])
\* The call returned and every page it asked for was served.
CuServed == cu.status = "returned" /\ cu_world.fault.page \notin Range(cu.requested)
\* The uploads at or after the cutoff, and the uploads returned.
CuInWindow == {k \in 1..Len(CuItems) : CreatedTs(CuItems[k]) >= cu_cutoff}
CuGot == {u.bvid : u \in Range(cu.updates)}

\* C3 as claimed: of a newest-first listing, every upload at or after the
\* cutoff is returned, however many there are.
C3_AllInWindowReturned ==
    (CuServed /\ CuNewestFirst) => CuInWindow \subseteq CuGot

\* C3, amended: of a newest-first listing, the uploads returned are exactly
\* the uploads at or after the cutoff on the first max_pages pages, each
\* once, in the order of the listing and with its own timestamp.
C3_InWindowOfFirstPagesReturned ==
    (CuServed /\ CuNewestFirst) =>
        /\ CuGot = {k \in CuInWindow : k <= cu_max_pages * PageSize}
        /\ \A i, j \in 1..Len(cu.updates) :
             i < j => cu.updates[i].bvid < cu.updates[j].bvid
        /\ \A u \in Range(cu.updates) :
             int(u.created_ts) = CreatedTs(CuItems[u.bvid])

\* A newest-first listing with more uploads at or after the cutoff than
\* max_pages pages hold: the call returned those of the first pages.
C3_Witness ==
    /\ CuServed /\ CuNewestFirst
    /\ CuGot # {}
    /\ \E k \in CuInWindow : k > cu_max_pages * PageSize
    /\ \E k \in CuInWindow : CreatedTs(CuItems[k]) = cu_cutoff

\* What the request of page k of the listing yields as vlist, when it does
\* not raise: nothing if the response carries no data.
CuFetched(k) ==
    IF cu_world.fault.page = k THEN <<>> ELSE PageOf(CuItems, PageSize, k)
\* Page k was served, held items, ended with an item at or after the cutoff,
\* and was not the last page allowed.
CuGoesOn(k) ==
    /\ cu_world.fault.page # k
    /\ CuFetched(k) # <<>>
    /\ CreatedTs(CuFetched(k)[Len(CuFetched(k))]) >= cu_cutoff
    /\ k < cu_max_pages
CuAsked == Len(cu.requested)

\* C11: fetch_creator_updates requests pages 1, 2, ... in order and at most
\* max_pages of them; page k+1 is requested only if page k held items, its
\* last item was at or after the cutoff and k < max_pages; the call goes on
\* exactly while that is so, and returns at the first page where it is not.
C11_PagingStops ==
    /\ cu.requested = [k \in 1..CuAsked |-> k]
    /\ CuAsked <= cu_max_pages
    /\ \A k \in 1..(CuAsked - 1) : CuGoesOn(k)
    /\ cu.status = "running" =>
         /\ cu.page = CuAsked + 1
         /\ CuAsked >= 1 => CuGoesOn(CuAsked)
    /\ cu.status = "returned" =>
         /\ CuAsked >= 1
         /\ ~CuGoesOn(CuAsked)

\* Two pages were allowed and the listing has a second page, but the first
\* page ended with an item older than the cutoff: only page 1 was requested.
C11_Witness ==
    /\ cu.status = "returned"
    /\ cu_max_pages = 2
    /\ cu.requested = <<1>>
    /\ CuFetched(1) # <<>>
    /\ CreatedTs(CuFetched(1)[Len(CuFetched(1))]) < cu_cutoff
    /\ CuFetched(2) # <<>>

\* The positions in the listing of the items of page k.
CuPageIdx(k) == {i \in 1..Len(CuItems) : (i - 1) \div PageSize + 1 = k}
\* The pages requested and served with their items.
CuPagesSeen == {k \in Range(cu.requested) : cu_world.fault.page # k}
\* The items of page k that come before its first item older than the cutoff.
CuBeforeOld(k) ==
    {i \in CuPageIdx(k) :
        \A j \in CuPageIdx(k) : j <= i => CreatedTs(CuItems[j]) >= cu_cutoff}
\* Page k is newest first.
CuPageSorted(k) ==
    \A i, j \in CuPageIdx(k) : i < j => CreatedTs(CuItems[i]) >= CreatedTs(CuItems[j])

\* C12: of each page it is served, fetch_creator_updates collects exactly
\* the items before the page's first item older than the cutoff, each once
\* and in page order: an item after an older one is not collected, whatever
\* its own timestamp; of a page that is newest first, the items collected
\* are the page's items at or after the cutoff.
C12_CollectsUntilFirstOld ==
    /\ CuGot = UNION {CuBeforeOld(k) : k \in CuPagesSeen}
    /\ \A i, j \in 1..Len(cu.updates) :
         i < j => cu.updates[i].bvid < cu.updates[j].bvid
    /\ \A k \in CuPagesSeen :
         /\ \A i, j \in CuPageIdx(k) :
              (i < j /\ CreatedTs(CuItems[i]) < cu_cutoff) => j \notin CuGot
         /\ CuPageSorted(k) => CuGot \cap CuPageIdx(k) = CuInWindow \cap CuPageIdx(k)

\* The call returned what it collected from page 1, and on page 2 left out
\* an item at or after the cutoff that follows an older item.
C12_Witness ==
    /\ cu.status = "returned"
    /\ CuPagesSeen = {1, 2}
    /\ CuGot \cap CuPageIdx(1) # {}
    /\ \E i, j \in CuPageIdx(2) :
         /\ i < j
         /\ CreatedTs(CuItems[i]) < cu_cutoff
         /\ CreatedTs(CuItems[j]) >= cu_cutoff
         /\ j \notin CuGot

(***************************************************************************)
(* Properties of fetch_followings_list.                                    *)
(***************************************************************************)
FlItems == Followed(fl_world.specials)
FlPage(k) == PageOf(FlItems, FollowPageSize, k)
\* The upstream answered the request of page k with an empty list.
FlEmpty(k) == fl_world.fault.page = k \/ FlPage(k) = <<>>
FlLast == fl.requested[Len(fl.requested)]
\* The entries of the non-empty pages among the first n, in page order.
RECURSIVE FlEntries(_)
FlEntries(n) ==
    IF n = 0 THEN <<>>
    ELSE FlEntries(n - 1) \o (IF FlEmpty(n) THEN <<>> ELSE FlPage(n))

\* C8: the pages are requested in the order 1, 2, ..., at most max_pages of
\* them and none after a page that came back empty; the call stops only at
\* an empty page or after page max_pages; and the result is, in page order,
\* one entry for every entry of the non-empty pages, with special "1"
\* exactly for an upstream entry whose special field is 1.
C8_ListPaging ==
    /\ fl.requested = [k \in 1..Len(fl.requested) |-> k]
    /\ Len(fl.requested) <= fl_max_pages
    /\ \A k \in Range(fl.requested) : k < FlLast => ~FlEmpty(k)
    /\ fl.status = "running" => \A k \in Range(fl.requested) : ~FlEmpty(k)
    /\ fl.status = "returned" =>
         /\ FlEmpty(FlLast) \/ FlLast = fl_max_pages
         /\ Len(fl.results) = Len(FlEntries(Len(fl.requested)))
         /\ \A k \in 1..Len(fl.results) :
              LET entry == FlEntries(Len(fl.requested))[k]
              IN  /\ fl.results[k].mid = entry.mid
                  /\ fl.results[k].special \in {str(0), str(1)}
                  /\ fl.results[k].special = str(1) <=> entry.special = Some(1)

\* A call allowed more pages stopped at an empty third page; of the two
\* entries it returned, one is flagged special and the other, whose special
\* field is a number other than 1, is not.
C8_Witness ==
    /\ fl.status = "returned"
    /\ Len(fl.requested) = 3 /\ Len(fl.requested) < fl_max_pages
    /\ FlEmpty(3)
    /\ Len(fl.results) = 2
    /\ fl.results[1].special = str(1)
    /\ fl_world.specials[2] = Some(2) /\ fl.results[2].special = str(0)

(***************************************************************************)
(* Failures of a fetch.                                                    *)
(***************************************************************************)
\* The fault makes fetch_bili_json raise, and the page it sits on was asked for.
Hit(fault, st) == fault.kind # "nulldata" /\ fault.page \in Range(st.requested)
\* Page p was asked for once, as the last request.
OnceAndLast(st, p) ==
    /\ st.requested[Len(st.requested)] = p
    /\ Cardinality({k \in 1..Len(st.requested) : st.requested[k] = p}) = 1

\* C9: a failed fetch of a page makes fetch_followings_list and
\* fetch_creator_updates raise after that one attempt, and they raise for no
\* other reason; what a call that raised had collected reaches no caller;
\* and when its following-list fetch raises, fetch_following_updates ends
\* without a feed and without statuses.
C9_FailurePropagates ==
    /\ fl.status = "raised" <=> Hit(fl_world.fault, fl)
    /\ Hit(fl_world.fault, fl) => OnceAndLast(fl, fl_world.fault.page)
    /\ cu.status = "raised" <=> Hit(cu_world.fault, cu)
    /\ Hit(cu_world.fault, cu) => OnceAndLast(cu, cu_world.fault.page)
    /\ cur_call.status = "raised" =>
         /\ OnceAndLast(cur_call, cur_call.page)
         /\ UpdatesBy(LastItem.mid) = <<>>
    /\ list_call.status = "raised" <=> pc = "raised"
    /\ pc = "raised" =>
         /\ OnceAndLast(list_call, list_call.page)
         /\ followings = <<>> /\ acc = NoAcc /\ idx = 0 /\ result = None

\* The following-list fetch of fetch_following_updates raised on its second
\* page, after the first page had been collected.
C9_Witness ==
    /\ pc = "raised"
    /\ list_call.requested = <<1, 2>>
    /\ list_call.results # <<>>
    /\ result = None

(***************************************************************************)
(* Properties of the debug script's fetch_json.                            *)
(***************************************************************************)
RECURSIVE Doubled(_)
Doubled(k) == IF k <= 1 THEN 1 ELSE 2 * Doubled(k - 1)

C10_Running == dbg_pc = "fetch_json" /\ dbg.status = "running"

\* The attempts of one call, so far.
C10_Attempts ==
    /\ Len(dbg.tried) <= 3
    /\ \A k \in 1..Len(dbg.tried) - 1 : dbg.tried[k] = 429
    /\ dbg.status = "running" =>
         /\ Len(dbg.tried) < 3
         /\ \A k \in 1..Len(dbg.tried) : dbg.tried[k] = 429
         /\ Len(dbg.slept) = Len(dbg.tried)
    /\ \A k \in 1..Len(dbg.slept) : dbg.slept[k] = Doubled(k)
    /\ dbg.status = "returned" =>
         /\ Len(dbg.slept) = Len(dbg.tried) - 1
         /\ dbg.value = dbg.tried[Len(dbg.tried)]
         /\ dbg.value = 429 => Len(dbg.tried) = 3

\* C10: fetch_json makes at most 3 attempts; it goes on to another attempt
\* only after a 429 with an attempt left, having slept 1s before the second
\* and 2s before the third; any other status, and a 429 on the third
\* attempt, is returned at once; and every call ends.
C10_RetryPolicy == []C10_Attempts /\ (C10_Running ~> ~C10_Running)

\* A call that met 429 three times: it slept 1s and 2s and returned the 429.
C10_Witness ==
    /\ dbg.status = "returned"
    /\ dbg.tried = <<429, 429, 429>>
    /\ dbg.slept = <<1, 2>>
    /\ dbg.value = 429

(***************************************************************************)
(* Properties of the session registry.                                     *)
(***************************************************************************)
\* The browsers whose Flask session holds a session id.
LoggedIn == {b \in Browsers : session[b].bili_session_id # None}
SessionIds == DOMAIN BILI_SESSION_STORE
\* The entries of the store that the Flask session of b refers to.
Referenced(b) == {t \in SessionIds : session[b].bili_session_id = Some(t)}

\* Every browser refers to at most one entry, every entry is referred to by
\* a browser, and there are no more entries than logged-in browsers.
C13_Registry ==
    /\ \A b \in Browsers : Cardinality(Referenced(b)) <= 1
    /\ \A t \in SessionIds : \E b \in Browsers : t \in Referenced(b)
    /\ Cardinality(SessionIds) <= Cardinality(LoggedIn)

\* What one request does, b being the browser it came from: a login that
\* succeeds removes the entry b referred to and stores one entry under the
\* id b then holds; a login that fails leaves the store and every session
\* id as they were; a logout leaves b without an id and the store without
\* the entry b referred to.
C13_Request ==
    LET b == request'.browser
        old == session[b].bili_session_id
        new == session'[b].bili_session_id
    IN  /\ request'.cookie = old
        /\ (request'.route = "login" /\ request'.outcome = "ok") =>
             /\ new # None
             /\ new[1] \in DOMAIN BILI_SESSION_STORE'
             /\ BILI_SESSION_STORE'[new[1]].sessdata # <<>>
             /\ (old # None /\ old # new) => old[1] \notin DOMAIN BILI_SESSION_STORE'
             /\ DOMAIN BILI_SESSION_STORE' \subseteq SessionIds \cup {new[1]}
        /\ (request'.route = "login" /\ request'.outcome # "ok") =>
             /\ BILI_SESSION_STORE' = BILI_SESSION_STORE
             /\ \A x \in Browsers :
                  session'[x].bili_session_id = session[x].bili_session_id
        /\ request'.route = "logout" =>
             /\ new = None
             /\ old # None => old[1] \notin DOMAIN BILI_SESSION_STORE'
             /\ DOMAIN BILI_SESSION_STORE' \subseteq SessionIds

\* C13: over any sequence of login and logout requests from the browsers,
\* each browser refers to at most one entry of BILI_SESSION_STORE and the
\* store never holds more entries than there are logged-in browsers; a
\* successful login removes the entry the browser referred to before it
\* stores the new one; a failed login changes neither the store nor the
\* browser's bili_session_id; after a logout the browser refers to no
\* entry and its former entry is gone.
C13_SessionRegistry == []C13_Registry /\ [][C13_Request]_vars

\* A browser that was logged in has logged in again under another id: its
\* former entry is gone while the other browser's entry is still there.
C13_Witness ==
    /\ request.route = "login" /\ request.outcome = "ok"
    /\ request.cookie # None
    /\ request.cookie # session[request.browser].bili_session_id
    /\ request.cookie[1] \notin SessionIds
    /\ LoggedIn = Browsers
    /\ Cardinality(SessionIds) = NumBrowsers

====
